---- MODULE Spec2Model ----
(***************************************************************************)
(* A state-machine model of script.js, the client-side script of the       *)
(* portfolio page.  The state is the part of the DOM the script reads and  *)
(* writes (class membership, inline errors, notifications), the closure    *)
(* variables of its callbacks, and the browser's pending timers.  Every    *)
(* action is one event handler or one timer callback, run to completion    *)
(* as the single-threaded event loop runs it.                              *)
(*                                                                         *)
(* Timers: a timer set with setTimeout(f, d) at time t runs at time t + d, *)
(* and a timer that is due runs before any other event of that instant     *)
(* (the clock does not pass a due timer).                                  *)
(***************************************************************************)
EXTENDS Integers, Sequences, FiniteSets, TLC

VARIABLES
    now,            \* the clock, in ms since the script ran
    present,        \* the elements the markup holds, among Elements
    thrown,         \* the handlers that have raised an uncaught error
    layout,         \* which of Layouts the markup is
    \* ---- scroll-driven state
    pageYOffset,    \* window.pageYOffset
    scrollCount,    \* scroll events dispatched so far
    blurHeader,     \* header.classList contains 'blur-header'
    activeLink,     \* activeLink[i]: nav link i carries 'active-link'
    timeout,        \* debounce's closure variable: a timer id, 0 when unset
    debTimers,      \* pending timers set by the debounced wrapper
    callTimes,      \* callTimes[i]: when the wrapper was called the i-th time
    execLog,        \* the runs of the debounced func: [time, args]
    headerRuns,     \* how many times handleHeaderScroll was called
    highlightRuns,  \* how many times highlightActiveNavLink was called
    \* ---- mobile menu
    showMenu,       \* navMenu.classList contains 'show-menu'
    lastNavEvent,   \* the last toggle, close or link click or Escape keydown
    scrollTarget,   \* the top last passed to window.scrollTo, -1 when none
    \* ---- project filter
    filterActive,   \* filterActive[b]: button b carries 'filter__btn--active'
    cardHide,       \* cardHide[c]: card c carries 'hide'
    cardStyled,     \* cardStyled[c]: card c's inline transform and opacity are set
    cardTimers,     \* pending 100 ms timers of filterProjects: [card, due]
    lastFilter,     \* the filter button clicked last, 0 when none
    \* ---- page load
    loadStep,       \* how many DOMContentLoaded listeners have run
    ioSupported,    \* 'IntersectionObserver' in window
    gridSupported,  \* CSS.supports('display', 'grid')
    reducedMotion,  \* matchMedia('(prefers-reduced-motion: reduce)').matches
    animateOnScroll,\* the elements carrying 'animate-on-scroll'
    animated,       \* the elements carrying 'animated'
    fadeObserved,   \* the elements fadeObserver observes
    skillObserved,  \* skillObserver observes the .about__skills container
    imgObserved,    \* the images imageObserver observes
    formListening,  \* the form has its submit, blur and input listeners
    skipLink,       \* the skip link has been inserted into the body
    transitionsOff, \* the --transition properties are set to none
    noGrid,         \* body carries 'no-grid'
    \* ---- contact form
    fieldValue,     \* fieldValue[f]: the value of field f, a character sequence
    fieldErrors,    \* fieldErrors[p]: the .form__error children of parent p
    fieldBorder,    \* fieldBorder[f]: field f's border colour is the error red
    submitDisabled, \* submitBtn.disabled
    submitLabel,    \* submitBtn.innerHTML
    submissions,    \* submitForm calls awaiting their delay: [id, due, originalText]
    submitCount,    \* submitForm calls started
    lastSubmit,     \* what validateForm found at the last submit event
    notifications,  \* the notification elements in the document: [id, type]
    notifShown,     \* the ids of the notifications slid into view
    notifTimers,    \* pending timers of showNotification: [id, kind, due]
    \* ---- intersection observers
    imgSrc,         \* imgSrc[img]: the src attribute of lazy image img
    imgLazy,        \* the images carrying 'lazy'
    srcAssigned,    \* srcAssigned[img]: how many times img.src was assigned
    skillAnimate,   \* the skill indicators carrying 'animate'
    skillTimers,    \* pending timers of the skill observer: [id, skill, due]
    skillTimerCount,\* timers the skill observer has set so far
    animateLog,     \* the classList.add('animate') calls: [skill, time]
    skillReports    \* the times of the container's isIntersecting reports

scrollVars == <<pageYOffset, scrollCount, blurHeader, activeLink, timeout,
                debTimers, callTimes, execLog, headerRuns, highlightRuns>>
navVars == <<showMenu, lastNavEvent, scrollTarget>>
filterVars == <<filterActive, cardHide, cardStyled, cardTimers, lastFilter>>
loadVars == <<loadStep, ioSupported, gridSupported, reducedMotion,
              animateOnScroll, animated, fadeObserved, skillObserved,
              imgObserved, formListening, skipLink, transitionsOff, noGrid>>
formVars == <<fieldValue, fieldErrors, fieldBorder, submitDisabled,
              submitLabel, submissions, submitCount, lastSubmit,
              notifications, notifShown, notifTimers>>
observeVars == <<imgSrc, imgLazy, srcAssigned, skillAnimate, skillTimers,
                 skillTimerCount, animateLog, skillReports>>
vars == <<now, present, thrown, layout, scrollVars, navVars, filterVars,
          loadVars, formVars, observeVars>>

----------------------------------------------------------------------------
(* Bounds of the model *)

MaxTime == 30
MaxScrolls == 3
FilterHorizon == 300
FormHorizon == 8000
MaxSubmits == 2
SkillHorizon == 1000
MaxReports == 2
MaxEntries == 2

(* Constants of the program *)

BlurThreshold == 50
LookAhead == 200
SectionLead == 200
DebounceWait == 16
FilterDelay == 100
NumLoadHandlers == 8
SubmitDelay == 2000
NotifyInDelay == 100
NotifyOutDelay == 5000
NotifyRemoveDelay == 300
SkillStagger == 200

----------------------------------------------------------------------------
(* The markup *)

Elements == {"nav-menu", "nav-toggle", "nav-close", "header", "contact-form",
             "submit-button", "about__skills"}

\* The vertical offsets the page is scrolled to.
Offsets == {0, 49, 50, 200, 201, 600, 1000, 1001}

\* Identifiers and hrefs are sequences of characters.  Layout 1: three
\* stacked sections, each with its link, and a fourth section with none.
\* Layout 2: the id of one section is part of the id of another and the
\* longer href comes first.  Layout 3: two sections whose extents overlap.
\* Layout 4: three stacked sections, each with its own link.
\* The link <<"r">> is no fragment link.  The header element carries both
\* the id 'header' and the class 'header'.
Layouts == <<
    [sections |-> << [id |-> <<"h">>, top |-> 0, height |-> 600],
                     [id |-> <<"a">>, top |-> 600, height |-> 400],
                     [id |-> <<"c">>, top |-> 1000, height |-> 400],
                     [id |-> <<"p">>, top |-> 1400, height |-> 400] >>,
     links |-> << <<"#", "h">>, <<"#", "a">>, <<"#", "c">>, <<"r">> >>,
     headerHeight |-> 60],
    [sections |-> << [id |-> <<"a">>, top |-> 0, height |-> 600],
                     [id |-> <<"a", "b">>, top |-> 600, height |-> 400] >>,
     links |-> << <<"#", "a", "b">>, <<"#", "a">> >>,
     headerHeight |-> 60],
    [sections |-> << [id |-> <<"h">>, top |-> 0, height |-> 800],
                     [id |-> <<"a">>, top |-> 600, height |-> 400] >>,
     links |-> << <<"#", "h">>, <<"#", "a">> >>,
     headerHeight |-> 80],
    [sections |-> << [id |-> <<"h">>, top |-> 0, height |-> 600],
                     [id |-> <<"a">>, top |-> 600, height |-> 400],
                     [id |-> <<"c">>, top |-> 1000, height |-> 400] >>,
     links |-> << <<"#", "h">>, <<"#", "a">>, <<"#", "c">> >>,
     headerHeight |-> 60]
  >>

Sections == Layouts[layout].sections
NavLinks == Layouts[layout].links

\* The data-filter of the filter buttons and the data-category of the
\* project cards, in document order.
Buttons == <<"all", "web", "app">>
CardCategory == <<"web", "app", "web">>
Cards == 1..Len(CardCategory)

\* The elements createFadeInObserver selects: .section__header,
\* .about__info, .contact__info and the project cards.
CardElement == <<"project__card 1", "project__card 2", "project__card 3">>
FadeElements == {"section__header", "about__info", "contact__info"}
                    \cup {CardElement[c] : c \in Cards}

\* The images with a data-src attribute.
LazyImages == {"img 1", "img 2"}

\* The .skill indicators of the skill container, by their forEach index.
Skills == 0..2

Keys == {"Escape", "Enter", "a"}

\* The form's fields, in document order: name, email, message, all
\* required, each the only field of its parent element.
Fields == 1..3
FieldType == <<"text", "email", "textarea">>
FieldRequired == <<TRUE, TRUE, TRUE>>
ParentOf(f) == f
RequiredFields == <<1, 2, 3>>
DefaultValue == [f \in Fields |-> <<>>]

\* The values typed into a field: empty, blank, a name; an address, an
\* address without a dot after the @, a padded address; a message.
FieldInputs ==
    << {<<>>, <<" ">>, <<"J">>},
       {<<>>, <<"j", "@", "x", ".", "c">>, <<"j", "@", "x">>,
        <<" ", "j", "@", "x", ".", "c">>},
       {<<>>, <<"H">>} >>

\* The values of the spec's valid form: a name, an address, a message.
ValidInput == << <<"J">>, <<"j", "@", "x", ".", "c">>, <<"H">> >>

\* The submit button's label in the markup and while sending.
OriginalLabel == "Send"
LoadingLabel == "Sending..."

----------------------------------------------------------------------------
(* Header blur and active link *)

\* The attribute selector [href*="id"]: the href contains id.
HrefContains(href, id) ==
    \E i \in 1..(Len(href) - Len(id) + 1) :
        SubSeq(href, i, i + Len(id) - 1) = id

\* document.querySelector(`.nav__link[href*="${sectionId}"]`): the first
\* matching link in document order, 0 when none matches.
querySelectorNavLink(links, id) ==
    LET hits == {i \in 1..Len(links) : HrefContains(links[i], id)}
    IN  IF hits = {} THEN 0
        ELSE CHOOSE i \in hits : \A j \in hits : i <= j

handleHeaderScrollStrict(y) == y > BlurThreshold
\* The class the header has after handleHeaderScroll ran at offset y.
handleHeaderScroll(y) == y >= BlurThreshold

InWindowClosedOpen(y, sec) ==
    LET scrollY == y + LookAhead
        sectionTop == sec.top - SectionLead
    IN  scrollY >= sectionTop /\ scrollY < sectionTop + sec.height
InWindowClosed(y, sec) ==
    LET scrollY == y + LookAhead
        sectionTop == sec.top - SectionLead
    IN  scrollY >= sectionTop /\ scrollY <= sectionTop + sec.height
\* The condition of highlightActiveNavLink for one section.
InWindow(y, sec) ==
    LET scrollY == y + LookAhead
        sectionTop == sec.top - SectionLead
    IN  scrollY > sectionTop /\ scrollY <= sectionTop + sec.height

RECURSIVE highlightFrom(_, _, _, _)
highlightFrom(secs, links, y, act) ==
    IF secs = <<>> THEN act
    ELSE LET sec == Head(secs)
             navLink == querySelectorNavLink(links, sec.id)
             next == IF navLink = 0 THEN act
                     ELSE [act EXCEPT ![navLink] = InWindow(y, sec)]
         IN  highlightFrom(Tail(secs), links, y, next)

\* The links' 'active-link' after highlightActiveNavLink ran at offset y.
highlightActiveNavLink(y, act) == highlightFrom(Sections, NavLinks, y, act)

----------------------------------------------------------------------------
(* Debounce *)

NextTimerId == Len(callTimes) + 1

clearTimeoutNone(timers, id) == timers
\* clearTimeout(id)
clearTimeout(timers, id) == {t \in timers : t.id # id}

debounceCallKeepOld(timers, id, t, args) ==
    timers \cup {[id |-> NextTimerId, due |-> t + DebounceWait, args |-> args]}
\* executedFunction(...args): the pending timers after a call of the wrapper.
debounceCall(timers, id, t, args) ==
    clearTimeout(timers, id)
        \cup {[id |-> NextTimerId, due |-> t + DebounceWait, args |-> args]}

\* The times at which the pending timers are due.
Dues == {t.due : t \in debTimers} \cup {t.due : t \in cardTimers}
            \cup {t.due : t \in submissions} \cup {t.due : t \in notifTimers}
            \cup {t.due : t \in skillTimers}

TimerDue == \E x \in Dues : x <= now

\* The scroll event at offset y, dispatched to the three listeners in the
\* order they were registered: handleHeaderScroll, highlightActiveNavLink,
\* the debounced wrapper.
Scroll(y) ==
    /\ ~TimerDue
    /\ scrollCount < MaxScrolls
    /\ pageYOffset' = y
    /\ scrollCount' = scrollCount + 1
    /\ IF "header" \in present
         THEN /\ blurHeader' = handleHeaderScroll(y)
              /\ thrown' = thrown
         ELSE /\ blurHeader' = blurHeader
              /\ thrown' = thrown \cup {"handleHeaderScroll"}
    /\ activeLink' = highlightActiveNavLink(y, activeLink)
    /\ headerRuns' = headerRuns + 1
    /\ highlightRuns' = highlightRuns + 1
    /\ debTimers' = debounceCall(debTimers, timeout, now, scrollCount + 1)
    /\ timeout' = NextTimerId
    /\ callTimes' = Append(callTimes, now)
    /\ UNCHANGED <<now, present, layout, execLog, navVars, filterVars,
                   loadVars, formVars, observeVars>>

\* later(): a timer of the wrapper fires and runs func with the arguments
\* of the call that set it; func is handleHeaderScroll, then
\* highlightActiveNavLink, which is not reached when the first throws.
FireDebounce ==
    \E t \in debTimers :
        /\ t.due <= now
        /\ \A u \in debTimers : t.due <= u.due
        /\ \A u \in debTimers : u.due = t.due => t.id <= u.id
        /\ debTimers' = clearTimeout(debTimers \ {t}, timeout)
        /\ execLog' = Append(execLog, [time |-> now, args |-> t.args])
        /\ IF "header" \in present
             THEN /\ blurHeader' = handleHeaderScroll(pageYOffset)
                  /\ activeLink' = highlightActiveNavLink(pageYOffset, activeLink)
                  /\ highlightRuns' = highlightRuns + 1
                  /\ thrown' = thrown
             ELSE /\ blurHeader' = blurHeader
                  /\ activeLink' = activeLink
                  /\ highlightRuns' = highlightRuns
                  /\ thrown' = thrown \cup {"debounced scroll"}
        /\ headerRuns' = headerRuns + 1
        /\ UNCHANGED <<now, present, layout, pageYOffset, scrollCount,
                       timeout, callTimes, navVars, filterVars, loadVars, formVars, observeVars>>

\* Time passes, by at most d, not beyond the next timer and not beyond
\* the horizon.
Tick(d, horizon) ==
    /\ ~TimerDue
    /\ now < horizon
    /\ LET lim == IF now + d <= horizon THEN now + d ELSE horizon
       IN  now' = IF \E x \in Dues : x < lim
                    THEN CHOOSE x \in Dues : \A z \in Dues : x <= z
                    ELSE lim
    /\ UNCHANGED <<present, thrown, layout, scrollVars, navVars, filterVars,
                   loadVars, formVars, observeVars>>

----------------------------------------------------------------------------
(* Project filter *)

updateActiveButtonKeepOthers(act, b) == [act EXCEPT ![b] = TRUE]
\* updateActiveButton: every button loses the class, the clicked one gets it.
updateActiveButton(act, b) == [x \in DOMAIN act |-> x = b]

shouldShowNoAll(filter, category) == category = filter
\* filterProjects: whether a card of the category is shown under the filter.
shouldShow(filter, category) == filter = "all" \/ category = filter

\* filterProjects: the cards' 'hide' class under the filter.
filterProjects(filter) ==
    [c \in Cards |-> ~shouldShow(filter, CardCategory[c])]

\* filterProjects: every shown card sets a timer of 100 ms.
filterTimers(timers, filter, t) ==
    timers \cup {[card |-> c, due |-> t + FilterDelay] :
                    c \in {x \in Cards : shouldShow(filter, CardCategory[x])}}

\* handleFilter(btn), the click listener ProjectFilter.init attaches.
HandleFilter(b) ==
    /\ filterActive' = updateActiveButton(filterActive, b)
    /\ cardHide' = filterProjects(Buttons[b])
    /\ cardTimers' = filterTimers(cardTimers, Buttons[b], now)
    /\ lastFilter' = b
    /\ UNCHANGED cardStyled

\* A click on filter button b, once ProjectFilter has been constructed.
FilterClick(b) ==
    /\ ~TimerDue
    /\ loadStep >= 1
    /\ HandleFilter(b)
    /\ UNCHANGED <<now, present, thrown, layout, scrollVars, navVars, loadVars, formVars, observeVars>>

\* The deferred style reset of a shown card.
FireCardTimer ==
    \E t \in cardTimers :
        /\ t.due <= now
        /\ \A u \in cardTimers : t.due <= u.due
        /\ \A u \in cardTimers : u.due = t.due => t.card <= u.card
        /\ cardTimers' = cardTimers \ {t}
        /\ cardStyled' = [cardStyled EXCEPT ![t.card] = TRUE]
        /\ UNCHANGED <<now, present, thrown, layout, scrollVars, navVars,
                       loadVars, formVars, observeVars, filterActive,
                       cardHide, lastFilter>>

----------------------------------------------------------------------------
(* Mobile menu, smooth scrolling and the keyboard *)

\* The click listener of navToggle, attached when navToggle exists.
ToggleClick ==
    /\ ~TimerDue
    /\ "nav-toggle" \in present
    /\ IF "nav-menu" \in present
         THEN showMenu' = TRUE /\ thrown' = thrown
         ELSE showMenu' = showMenu /\ thrown' = thrown \cup {"navToggle click"}
    /\ lastNavEvent' = "toggle"
    /\ UNCHANGED <<now, present, layout, scrollTarget, scrollVars, filterVars,
                   loadVars, formVars, observeVars>>

\* The click listener of navClose, attached when navClose exists.
CloseClick ==
    /\ ~TimerDue
    /\ "nav-close" \in present
    /\ IF "nav-menu" \in present
         THEN showMenu' = FALSE /\ thrown' = thrown
         ELSE showMenu' = showMenu /\ thrown' = thrown \cup {"navClose click"}
    /\ lastNavEvent' = "close"
    /\ UNCHANGED <<now, present, layout, scrollTarget, scrollVars, filterVars,
                   loadVars, formVars, observeVars>>

\* document.querySelector(targetId) for a fragment href: the section with
\* that id, 0 when there is none.
querySelectorSection(href) ==
    LET hits == {i \in 1..Len(Sections) : Sections[i].id = Tail(href)}
    IN  IF hits = {} THEN 0 ELSE CHOOSE i \in hits : \A j \in hits : i <= j

\* smoothScrollToSection: the top passed to window.scrollTo, the former
\* target when the section does not exist.
smoothScrollToSection(href, target) ==
    LET sec == querySelectorSection(href)
    IN  IF sec = 0 THEN target
        ELSE Sections[sec].top - Layouts[layout].headerHeight

\* A click on nav link l: the listener that closes the menu, then the one
\* that scrolls to the link's section.
LinkClick(l) ==
    /\ ~TimerDue
    /\ showMenu' = IF "nav-menu" \in present THEN FALSE ELSE showMenu
    /\ lastNavEvent' = "link"
    /\ LET fragment == Head(NavLinks[l]) = "#"
       IN  /\ scrollTarget' =
                IF fragment /\ "header" \in present
                  THEN smoothScrollToSection(NavLinks[l], scrollTarget)
                  ELSE scrollTarget
           /\ thrown' = thrown
                \cup (IF "nav-menu" \in present THEN {} ELSE {"navLink click"})
                \cup (IF fragment /\ "header" \notin present
                        THEN {"smoothScrollToSection"} ELSE {})
    /\ UNCHANGED <<now, present, layout, scrollVars, filterVars, loadVars, formVars, observeVars>>

keydownMenuNoEscape(show, key) == show
\* The keydown listener's first statement: Escape closes an open menu.
keydownMenu(show, key) == IF key = "Escape" /\ show THEN FALSE ELSE show

\* A keydown of key on target: a filter button (its index) or another
\* element (0).  Escape reads navMenu.classList; Enter on a filter button
\* clicks it.
Keydown(key, target) ==
    /\ ~TimerDue
    /\ IF key = "Escape" /\ "nav-menu" \notin present
         THEN showMenu' = showMenu /\ thrown' = thrown \cup {"keydown"}
         ELSE showMenu' = keydownMenu(showMenu, key) /\ thrown' = thrown
    /\ lastNavEvent' = IF key = "Escape" THEN "escape" ELSE lastNavEvent
    /\ IF key = "Enter" /\ target # 0 /\ loadStep >= 1
         THEN HandleFilter(target)
         ELSE UNCHANGED filterVars
    /\ UNCHANGED <<now, present, layout, scrollTarget, scrollVars, loadVars, formVars, observeVars>>

----------------------------------------------------------------------------
(* Contact form *)

IsSpace(c) == c = " "

RECURSIVE trimStart(_)
trimStart(v) == IF v # <<>> /\ IsSpace(Head(v)) THEN trimStart(Tail(v)) ELSE v

RECURSIVE trimEnd(_)
trimEnd(v) ==
    IF v # <<>> /\ IsSpace(v[Len(v)])
      THEN trimEnd(SubSeq(v, 1, Len(v) - 1))
      ELSE v

\* String.prototype.trim
trim(v) == trimEnd(trimStart(v))

\* The character class [^\s@]
Plain(c) == ~IsSpace(c) /\ c # "@"

\* isValidEmail: /^[^\s@]+@[^\s@]+\.[^\s@]+$/
isValidEmail(v) ==
    \E i, k \in 1..Len(v) :
        /\ 1 < i /\ i + 1 < k /\ k < Len(v)
        /\ v[i] = "@"
        /\ v[k] = "."
        /\ \A j \in (1..Len(v)) \ {i} : Plain(v[j])

\* The inline errors and the borders, as one value: [errors, border].

\* clearFieldError: the first .form__error of the field's parent is
\* removed and the field's border colour reset.
clearFieldError(st, f) ==
    [errors |-> [st.errors EXCEPT ![ParentOf(f)] =
                    IF @ = <<>> THEN @ ELSE Tail(@)],
     border |-> [st.border EXCEPT ![f] = FALSE]]

\* showFieldError: after clearFieldError, an error element is appended to
\* the field's parent and the field's border turns red.
showFieldError(st, f, message) ==
    LET c == clearFieldError(st, f)
    IN  [errors |-> [c.errors EXCEPT ![ParentOf(f)] =
                        Append(@, [field |-> f, message |-> message])],
         border |-> [c.border EXCEPT ![f] = TRUE]]

fieldProblemNoTrim(f, v) ==
    IF v = <<>> THEN "This field is required"
    ELSE IF FieldType[f] = "email" /\ ~isValidEmail(v)
      THEN "Please enter a valid email address"
    ELSE ""
\* validateForm's test of one required field: the message to show, "" when
\* the field is valid.
fieldProblem(f, v) ==
    IF trim(v) = <<>> THEN "This field is required"
    ELSE IF FieldType[f] = "email" /\ ~isValidEmail(v)
      THEN "Please enter a valid email address"
    ELSE ""

RECURSIVE validateFrom(_, _, _, _)
validateFrom(fs, st, vals, isValid) ==
    IF fs = <<>> THEN [st |-> st, isValid |-> isValid]
    ELSE LET f == Head(fs)
             problem == fieldProblem(f, vals[f])
         IN  IF problem # ""
               THEN validateFrom(Tail(fs), showFieldError(st, f, problem),
                                 vals, FALSE)
               ELSE validateFrom(Tail(fs), clearFieldError(st, f), vals,
                                 isValid)

\* validateForm: [st, isValid]
validateForm(st, vals) == validateFrom(RequiredFields, st, vals, TRUE)

FieldState == [errors |-> fieldErrors, border |-> fieldBorder]

FormFrame == UNCHANGED <<now, present, layout, scrollVars, navVars,
                         filterVars, loadVars, observeVars>>

\* The 'input' listener of field f, as the user changes its value to v.
InputEvent(f, v) ==
    /\ ~TimerDue
    /\ formListening
    /\ fieldValue' = [fieldValue EXCEPT ![f] = v]
    /\ LET st == clearFieldError(FieldState, f)
       IN  fieldErrors' = st.errors /\ fieldBorder' = st.border
    /\ FormFrame
    /\ UNCHANGED <<thrown, submitDisabled, submitLabel, submissions,
                   submitCount, lastSubmit, notifications, notifShown,
                   notifTimers>>

\* The 'blur' listener of field f.
Blur(f) ==
    /\ ~TimerDue
    /\ formListening
    /\ LET v == fieldValue[f]
           st == IF FieldRequired[f] /\ trim(v) = <<>>
                   THEN showFieldError(FieldState, f, "This field is required")
                 ELSE IF FieldType[f] = "email" /\ v # <<>> /\ ~isValidEmail(v)
                   THEN showFieldError(FieldState, f,
                                       "Please enter a valid email address")
                 ELSE clearFieldError(FieldState, f)
       IN  fieldErrors' = st.errors /\ fieldBorder' = st.border
    /\ FormFrame
    /\ UNCHANGED <<thrown, fieldValue, submitDisabled, submitLabel,
                   submissions, submitCount, lastSubmit, notifications,
                   notifShown, notifTimers>>

\* The form is valid, as validateForm finds it.
FormValid == validateForm(FieldState, fieldValue).isValid

\* handleSubmit: validateForm, then submitForm if the form is valid.
\* submitForm reads the submit button, which throws when there is none,
\* shows the loading state and awaits the delay.
SubmitEvent ==
    /\ ~TimerDue
    /\ formListening
    /\ LET r == validateForm(FieldState, fieldValue)
       IN  /\ fieldErrors' = r.st.errors
           /\ fieldBorder' = r.st.border
           /\ lastSubmit' = IF r.isValid THEN "valid" ELSE "invalid"
           /\ IF ~r.isValid
                THEN UNCHANGED <<thrown, submitDisabled, submitLabel,
                                 submissions, submitCount>>
              ELSE IF "submit-button" \notin present
                THEN /\ thrown' = thrown \cup {"submitForm"}
                     /\ UNCHANGED <<submitDisabled, submitLabel, submissions,
                                    submitCount>>
              ELSE /\ submitCount < MaxSubmits
                   /\ submitCount' = submitCount + 1
                   /\ submitLabel' = LoadingLabel
                   /\ submitDisabled' = TRUE
                   /\ submissions' = submissions \cup
                        {[id |-> submitCount + 1, due |-> now + SubmitDelay,
                          originalText |-> submitLabel]}
                   /\ thrown' = thrown
    /\ FormFrame
    /\ UNCHANGED <<fieldValue, notifications, notifShown, notifTimers>>

showNotificationStay(id, type) ==
    /\ notifications' = notifications \cup {[id |-> id, type |-> type]}
    /\ notifTimers' = notifTimers \cup
            {[id |-> id, kind |-> "in", due |-> now + NotifyInDelay]}
\* showNotification: the element is appended and its two timers are set.
showNotification(id, type) ==
    /\ notifications' = notifications \cup {[id |-> id, type |-> type]}
    /\ notifTimers' = notifTimers \cup
            {[id |-> id, kind |-> "in", due |-> now + NotifyInDelay],
             [id |-> id, kind |-> "out", due |-> now + NotifyOutDelay]}

\* The delay of a submitForm call is over: the success notification, the
\* form reset, then the finally block.
FinishSubmit ==
    \E s \in submissions :
        /\ s.due <= now
        /\ \A u \in submissions : u.due = s.due => s.id <= u.id
        /\ submissions' = submissions \ {s}
        /\ showNotification(s.id, "success")
        /\ fieldValue' = DefaultValue
        /\ submitLabel' = s.originalText
        /\ submitDisabled' = FALSE
        /\ FormFrame
        /\ UNCHANGED <<thrown, fieldErrors, fieldBorder, submitCount,
                       lastSubmit, notifShown>>

\* A timer of showNotification: slide in; slide out and set the removal
\* timer; remove the element.
FireNotifTimer ==
    \E t \in notifTimers :
        /\ t.due <= now
        /\ \A u \in notifTimers : u.due = t.due => t.id <= u.id
        /\ CASE t.kind = "in" ->
                  /\ notifShown' = notifShown \cup {t.id}
                  /\ notifTimers' = notifTimers \ {t}
                  /\ notifications' = notifications
             [] t.kind = "out" ->
                  /\ notifShown' = notifShown \ {t.id}
                  /\ notifTimers' = (notifTimers \ {t}) \cup
                        {[id |-> t.id, kind |-> "remove",
                          due |-> now + NotifyRemoveDelay]}
                  /\ notifications' = notifications
             [] t.kind = "remove" ->
                  /\ notifShown' = notifShown
                  /\ notifTimers' = notifTimers \ {t}
                  /\ notifications' = {n \in notifications : n.id # t.id}
        /\ FormFrame
        /\ UNCHANGED <<thrown, fieldValue, fieldErrors, fieldBorder,
                       submitDisabled, submitLabel, submissions, submitCount,
                       lastSubmit>>

----------------------------------------------------------------------------
(* DOMContentLoaded: the eight listeners, in the order they were registered *)

LoadFrame == UNCHANGED <<now, present, layout, scrollVars, navVars,
                         filterVars, formVars, observeVars, ioSupported,
                         gridSupported, reducedMotion>>

\* new ProjectFilter(): the filter buttons get their click listener.
LoadProjectFilter ==
    /\ loadStep = 0
    /\ loadStep' = 1
    /\ LoadFrame
    /\ UNCHANGED <<thrown, animateOnScroll, animated, fadeObserved,
                   skillObserved, imgObserved, formListening, skipLink,
                   transitionsOff, noGrid>>

\* new ScrollAnimations(): createFadeInObserver constructs its observer
\* first, which throws where IntersectionObserver is not defined; then it
\* tags and observes the fade elements, and createSkillBarObserver observes
\* the skill container if there is one.
LoadScrollAnimations ==
    /\ loadStep = 1
    /\ loadStep' = 2
    /\ LoadFrame
    /\ IF ioSupported
         THEN /\ animateOnScroll' = animateOnScroll \cup FadeElements
              /\ fadeObserved' = FadeElements
              /\ skillObserved' = ("about__skills" \in present)
              /\ thrown' = thrown
         ELSE /\ UNCHANGED <<animateOnScroll, fadeObserved, skillObserved>>
              /\ thrown' = thrown \cup {"ScrollAnimations"}
    /\ UNCHANGED <<animated, imgObserved, formListening, skipLink,
                   transitionsOff, noGrid>>

\* new ContactForm(): the listeners are attached if the form exists.
LoadContactForm ==
    /\ loadStep = 2
    /\ loadStep' = 3
    /\ LoadFrame
    /\ formListening' = ("contact-form" \in present)
    /\ UNCHANGED <<thrown, animateOnScroll, animated, fadeObserved,
                   skillObserved, imgObserved, skipLink, transitionsOff,
                   noGrid>>

\* manageFocus: the skip link is inserted.
LoadManageFocus ==
    /\ loadStep = 3
    /\ loadStep' = 4
    /\ LoadFrame
    /\ skipLink' = TRUE
    /\ UNCHANGED <<thrown, animateOnScroll, animated, fadeObserved,
                   skillObserved, imgObserved, formListening, transitionsOff,
                   noGrid>>

\* initializeLazyLoading: constructs its observer, which throws where
\* IntersectionObserver is not defined, and observes the lazy images.
LoadLazyLoading ==
    /\ loadStep = 4
    /\ loadStep' = 5
    /\ LoadFrame
    /\ IF ioSupported
         THEN imgObserved' = LazyImages /\ thrown' = thrown
         ELSE imgObserved' = imgObserved
                /\ thrown' = thrown \cup {"initializeLazyLoading"}
    /\ UNCHANGED <<animateOnScroll, animated, fadeObserved, skillObserved,
                   formListening, skipLink, transitionsOff, noGrid>>

\* respectMotionPreferences
LoadMotionPreferences ==
    /\ loadStep = 5
    /\ loadStep' = 6
    /\ LoadFrame
    /\ transitionsOff' = reducedMotion
    /\ UNCHANGED <<thrown, animateOnScroll, animated, fadeObserved,
                   skillObserved, imgObserved, formListening, skipLink,
                   noGrid>>

\* checkFeatureSupport's fallback: without IntersectionObserver, the
\* elements that carry 'animate-on-scroll' get 'animated'.
fallbackAnimated(io, tagged, anim) ==
    IF io THEN anim ELSE anim \cup tagged

\* checkFeatureSupport
LoadFeatureSupport ==
    /\ loadStep = 6
    /\ loadStep' = 7
    /\ LoadFrame
    /\ animated' = fallbackAnimated(ioSupported, animateOnScroll, animated)
    /\ noGrid' = ~gridSupported
    /\ UNCHANGED <<thrown, animateOnScroll, fadeObserved, skillObserved,
                   imgObserved, formListening, skipLink, transitionsOff>>

\* initializePortfolio: a console message.
LoadInitializePortfolio ==
    /\ loadStep = 7
    /\ loadStep' = 8
    /\ LoadFrame
    /\ UNCHANGED <<thrown, animateOnScroll, animated, fadeObserved,
                   skillObserved, imgObserved, formListening, skipLink,
                   transitionsOff, noGrid>>

----------------------------------------------------------------------------
(* Intersection observers *)

ObserveFrame == UNCHANGED <<now, present, thrown, layout, scrollVars,
                            navVars, filterVars, formVars>>

\* The entries one callback receives: an isIntersecting for each of some
\* observed targets, at most max of them.
Entries(targets, max) ==
    UNION {[T -> BOOLEAN] :
            T \in {U \in SUBSET targets : U # {} /\ Cardinality(U) <= max}}

\* The targets of the entries with isIntersecting true.
Intersecting(entries) == {el \in DOMAIN entries : entries[el]}

fadeCallbackUntag(classed, entries) ==
    (classed \ (DOMAIN entries)) \cup Intersecting(entries)
\* fadeObserver's callback: the elements carrying a class it adds.
fadeCallback(classed, entries) == classed \cup Intersecting(entries)

\* fadeObserver reports on some of the elements it observes.
FadeIntersect(entries) ==
    /\ ~TimerDue
    /\ loadStep = NumLoadHandlers
    /\ DOMAIN entries \subseteq fadeObserved
    /\ animateOnScroll' = fadeCallback(animateOnScroll, entries)
    /\ animated' = fadeCallback(animated, entries)
    /\ ObserveFrame
    /\ UNCHANGED <<loadStep, ioSupported, gridSupported, reducedMotion,
                   fadeObserved, skillObserved, imgObserved, formListening,
                   skipLink, transitionsOff, noGrid, observeVars>>

unobserveNothing(observed, targets) == observed
\* imageObserver.unobserve(img), for each of the targets.
unobserve(observed, targets) == observed \ targets

\* imageObserver reports on some of the images it observes: an intersecting
\* image gets its data-src as src, loses 'lazy' and is unobserved.
ImageIntersect(entries) ==
    /\ ~TimerDue
    /\ loadStep = NumLoadHandlers
    /\ DOMAIN entries \subseteq imgObserved
    /\ imgSrc' = [img \in LazyImages |->
                    IF img \in Intersecting(entries) THEN "data-src"
                    ELSE imgSrc[img]]
    /\ srcAssigned' = [img \in LazyImages |->
                    IF img \in Intersecting(entries) THEN srcAssigned[img] + 1
                    ELSE srcAssigned[img]]
    /\ imgLazy' = imgLazy \ Intersecting(entries)
    /\ imgObserved' = unobserve(imgObserved, Intersecting(entries))
    /\ ObserveFrame
    /\ UNCHANGED <<loadStep, ioSupported, gridSupported, reducedMotion,
                   animateOnScroll, animated, fadeObserved, skillObserved,
                   formListening, skipLink, transitionsOff, noGrid,
                   skillAnimate, skillTimers, skillTimerCount, animateLog,
                   skillReports>>

staggerDelayReversed(index) == (2 - index) * SkillStagger
\* The delay of the timer of the skill with the index.
staggerDelay(index) == index * SkillStagger

\* skillObserver's callback on an intersecting entry: a timer for every
\* skill, set in index order.
skillCallback(timers, count, t) ==
    timers \cup {[id |-> count + index + 1, skill |-> index,
                  due |-> t + staggerDelay(index)] : index \in Skills}

\* skillObserver reports on the skill container.
SkillIntersect(isIntersecting) ==
    /\ ~TimerDue
    /\ loadStep = NumLoadHandlers
    /\ skillObserved
    /\ IF isIntersecting
         THEN /\ Len(skillReports) < MaxReports
              /\ skillTimers' = skillCallback(skillTimers, skillTimerCount, now)
              /\ skillTimerCount' = skillTimerCount + Cardinality(Skills)
              /\ skillReports' = Append(skillReports, now)
         ELSE UNCHANGED <<skillTimers, skillTimerCount, skillReports>>
    /\ ObserveFrame
    /\ UNCHANGED <<loadVars, imgSrc, imgLazy, srcAssigned, skillAnimate,
                   animateLog>>

\* A timer of the skill observer fires: the earliest due, the earliest set
\* among those due together.
FireSkillTimer ==
    \E t \in skillTimers :
        /\ t.due <= now
        /\ \A u \in skillTimers : t.due <= u.due
        /\ \A u \in skillTimers : u.due = t.due => t.id <= u.id
        /\ skillTimers' = skillTimers \ {t}
        /\ skillAnimate' = skillAnimate \cup {t.skill}
        /\ animateLog' = Append(animateLog, [skill |-> t.skill, time |-> now])
        /\ ObserveFrame
        /\ UNCHANGED <<loadVars, imgSrc, imgLazy, srcAssigned,
                       skillTimerCount, skillReports>>

----------------------------------------------------------------------------
(* Specifications *)

InitCommon ==
    /\ now = 0
    /\ thrown = {}
    /\ scrollCount = 0
    /\ blurHeader = FALSE
    /\ timeout = 0
    /\ debTimers = {}
    /\ callTimes = <<>>
    /\ execLog = <<>>
    /\ headerRuns = 0
    /\ highlightRuns = 0
    /\ imgSrc = [img \in LazyImages |-> "placeholder"]
    /\ imgLazy = LazyImages
    /\ srcAssigned = [img \in LazyImages |-> 0]
    /\ skillAnimate = {}
    /\ skillTimers = {}
    /\ skillTimerCount = 0
    /\ animateLog = <<>>
    /\ skillReports = <<>>
    /\ showMenu = FALSE
    /\ lastNavEvent = "none"
    /\ scrollTarget = -1
    /\ cardHide = [c \in Cards |-> FALSE]
    /\ cardStyled = [c \in Cards |-> FALSE]
    /\ cardTimers = {}
    /\ lastFilter = 0
    /\ fieldValue = DefaultValue
    /\ fieldErrors = [p \in Fields |-> <<>>]
    /\ fieldBorder = [f \in Fields |-> FALSE]
    /\ submitDisabled = FALSE
    /\ submitLabel = OriginalLabel
    /\ submissions = {}
    /\ submitCount = 0
    /\ lastSubmit = "none"
    /\ notifications = {}
    /\ notifShown = {}
    /\ notifTimers = {}

\* All DOMContentLoaded listeners have run; the first filter button is the
\* active one in the markup.
InitLoaded ==
    /\ loadStep = NumLoadHandlers
    /\ filterActive = [b \in 1..Len(Buttons) |-> b = 1]
    /\ ioSupported = TRUE
    /\ gridSupported = TRUE
    /\ reducedMotion = FALSE
    /\ animateOnScroll = FadeElements
    /\ animated = {}
    /\ fadeObserved = FadeElements
    /\ skillObserved = ("about__skills" \in present)
    /\ imgObserved = LazyImages
    /\ formListening = ("contact-form" \in present)
    /\ skipLink = TRUE
    /\ transitionsOff = FALSE
    /\ noGrid = FALSE

\* The page as loaded: any markup layout, the header there or not, the
\* page at any offset (a reload or a link to a fragment starts it scrolled),
\* the first link carrying 'active-link' in the markup or none.
InitScroll ==
    /\ InitCommon
    /\ layout \in 1..Len(Layouts)
    /\ present \in {Elements, Elements \ {"header"}}
    /\ pageYOffset \in Offsets
    /\ activeLink \in {[i \in 1..Len(NavLinks) |-> FALSE],
                       [i \in 1..Len(NavLinks) |-> i = 1]}
    /\ InitLoaded

NextScroll ==
    \/ \E y \in Offsets : Scroll(y)
    \/ FireDebounce
    \/ Tick(DebounceWait, MaxTime)

SpecScroll == InitScroll /\ [][NextScroll]_vars

\* The debounced wrapper under a clock of 1 ms.
InitDebounce ==
    /\ InitCommon
    /\ layout = 1
    /\ present = Elements
    /\ pageYOffset = 0
    /\ activeLink = [i \in 1..Len(NavLinks) |-> FALSE]
    /\ InitLoaded

NextDebounce ==
    \/ \E y \in {0, BlurThreshold} : Scroll(y)
    \/ FireDebounce
    \/ Tick(1, MaxTime)

SpecDebounce == InitDebounce /\ [][NextDebounce]_vars

\* The menu, the links and the keyboard, with one of the elements the
\* script looks up missing from the markup, or none.
InitNav ==
    /\ InitCommon
    /\ layout \in 1..Len(Layouts)
    /\ present \in {Elements} \cup
            {Elements \ {e} : e \in {"nav-menu", "nav-toggle", "nav-close", "header"}}
    /\ pageYOffset = 0
    /\ activeLink = [i \in 1..Len(NavLinks) |-> FALSE]
    /\ InitLoaded

NextNav ==
    \/ ToggleClick
    \/ CloseClick
    \/ \E l \in 1..Len(NavLinks) : LinkClick(l)
    \/ \E key \in Keys, target \in 0..Len(Buttons) : Keydown(key, target)

SpecNav == InitNav /\ [][NextNav]_vars

\* The project filter under a clock of 50 ms.
NextFilter ==
    \/ \E b \in 1..Len(Buttons) : FilterClick(b)
    \/ FireCardTimer
    \/ Tick(50, FilterHorizon)

\* The page with every element there and the first layout.
InitFilter == InitDebounce

SpecFilter == InitFilter /\ [][NextFilter]_vars

\* The document has been parsed and no DOMContentLoaded listener has run:
\* any browser support, some elements tagged 'animate-on-scroll' in the
\* markup or none, the skill container or the form there or not.
InitLoad ==
    /\ InitCommon
    /\ layout = 1
    /\ present \in {Elements, Elements \ {"about__skills"},
                    Elements \ {"contact-form"}}
    /\ pageYOffset = 0
    /\ activeLink = [i \in 1..Len(NavLinks) |-> FALSE]
    /\ filterActive = [b \in 1..Len(Buttons) |-> b = 1]
    /\ loadStep = 0
    /\ ioSupported \in BOOLEAN
    /\ gridSupported \in BOOLEAN
    /\ reducedMotion \in BOOLEAN
    /\ animateOnScroll \in {{}, {"section__header"}}
    /\ animated = {}
    /\ fadeObserved = {}
    /\ skillObserved = FALSE
    /\ imgObserved = {}
    /\ formListening = FALSE
    /\ skipLink = FALSE
    /\ transitionsOff = FALSE
    /\ noGrid = FALSE

NextLoad ==
    \/ LoadProjectFilter
    \/ LoadScrollAnimations
    \/ LoadContactForm
    \/ LoadManageFocus
    \/ LoadLazyLoading
    \/ LoadMotionPreferences
    \/ LoadFeatureSupport
    \/ LoadInitializePortfolio

SpecLoad == InitLoad /\ [][NextLoad]_vars

\* The contact form, the submit button there or not.
InitForm ==
    /\ InitCommon
    /\ layout = 1
    /\ present \in {Elements, Elements \ {"submit-button"}}
    /\ pageYOffset = 0
    /\ activeLink = [i \in 1..Len(NavLinks) |-> FALSE]
    /\ InitLoaded

\* Validation: the form's events with every input, at one instant.
NextValidate ==
    \/ \E f \in Fields : \E v \in FieldInputs[f] : InputEvent(f, v)
    \/ \E f \in Fields : Blur(f)
    \/ SubmitEvent

SpecValidate == InitForm /\ [][NextValidate]_vars

\* Submission: the form's events under a clock of 1000 ms, the fields
\* emptied or filled with the valid values.
NextForm ==
    \/ \E f \in Fields : \E v \in {DefaultValue[f], ValidInput[f]} :
            InputEvent(f, v)
    \/ \E f \in Fields : Blur(f)
    \/ SubmitEvent
    \/ FinishSubmit
    \/ FireNotifTimer
    \/ Tick(1000, FormHorizon)

SpecForm == InitForm /\ [][NextForm]_vars

\* Timers fire when they are due and time passes.
SpecFormFair ==
    /\ SpecForm
    /\ WF_vars(FinishSubmit)
    /\ WF_vars(FireNotifTimer)
    /\ WF_vars(Tick(1000, FormHorizon))

\* The lazy images and the skill container under a clock of 100 ms.
InitObserve == InitDebounce

NextObserve ==
    \/ \E entries \in Entries(LazyImages, MaxEntries) : ImageIntersect(entries)
    \/ \E isIntersecting \in BOOLEAN : SkillIntersect(isIntersecting)
    \/ FireSkillTimer
    \/ Tick(100, SkillHorizon)

SpecObserve == InitObserve /\ [][NextObserve]_vars

\* Timers fire when they are due and time passes.
SpecObserveFair ==
    SpecObserve /\ WF_vars(FireSkillTimer) /\ WF_vars(Tick(100, SkillHorizon))

\* The fade elements, the project filter and one scroll event under a
\* clock of 100 ms; the observer reports on a section header and on two
\* project cards, one of each category.
InitAnimate == InitDebounce

ReportedFade == {"section__header", CardElement[1], CardElement[2]}

NextAnimate ==
    \/ \E entries \in Entries(ReportedFade, MaxEntries) : FadeIntersect(entries)
    \/ \E b \in 1..Len(Buttons) : FilterClick(b)
    \/ FireCardTimer
    \/ scrollCount = 0 /\ Scroll(600)
    \/ FireDebounce
    \/ Tick(100, FilterHorizon)

SpecAnimate == InitAnimate /\ [][NextAnimate]_vars

----------------------------------------------------------------------------
(* Claims *)

\* Call j of the wrapper ends a burst: no call follows it within the wait.
LastOfBurst(j) ==
    \/ j = Len(callTimes)
    \/ callTimes[j + 1] - callTimes[j] >= DebounceWait

\* The burst that call j ends is over: a later call was made, or the wait
\* has gone by.
BurstSettled(j) ==
    /\ LastOfBurst(j)
    /\ j < Len(callTimes) \/ now > callTimes[j] + DebounceWait

ExecsOf(j) == {k \in 1..Len(execLog) : execLog[k].args = j}

\* C1: every run of the debounced func has the arguments of the last call
\* of a burst and happens DebounceWait after that call; a burst that is
\* over has run func exactly once, so no call but the last of a burst is
\* ever passed to func.
C1_DebounceTiming ==
    /\ \A k \in 1..Len(execLog) :
         LET j == execLog[k].args
         IN  /\ j \in 1..Len(callTimes)
             /\ LastOfBurst(j)
             /\ execLog[k].time = callTimes[j] + DebounceWait
    /\ \A j \in 1..Len(callTimes) :
         /\ Cardinality(ExecsOf(j)) <= 1
         /\ BurstSettled(j) => Cardinality(ExecsOf(j)) = 1

\* Calls at t = 0, 5, 10: one run, at t = 26, with the third call's arguments.
C1_Witness ==
    /\ callTimes = <<0, 5, 10>>
    /\ execLog = <<[time |-> 26, args |-> 3]>>

\* C2, as amended: once a scroll event has been handled, the header carries
\* 'blur-header' exactly when the offset is at least 50.
C2_BlurAfterScroll ==
    ("header" \in present /\ scrollCount > 0)
        => (blurHeader <=> pageYOffset >= 50)

\* A scroll event to the offset 50 itself has blurred the header.
C2_Witness ==
    /\ "header" \in present
    /\ scrollCount > 0
    /\ pageYOffset = 50
    /\ blurHeader

\* C2, as stated: the header's class follows the offset in the state right
\* after page load too, before any scroll event.
C2_BlurAlways ==
    "header" \in present => (blurHeader <=> pageYOffset >= 50)

\* The link highlightActiveNavLink selects for section i.
LinkOf(i) == querySelectorNavLink(NavLinks, Sections[i].id)

\* Section i has a link, which no later section selects as well.
LastSelector(i) ==
    /\ LinkOf(i) # 0
    /\ \A j \in (i + 1)..Len(Sections) : LinkOf(j) # LinkOf(i)

\* C3, as amended: after highlightActiveNavLink ran, a section's link is
\* active exactly when pageYOffset + 200 is in (top-200, top-200+height]:
\* above the lower bound, up to and including the upper one.
C3_WindowOpenClosed ==
    scrollCount > 0 =>
        \A i \in 1..Len(Sections) :
            LastSelector(i) =>
                (activeLink[LinkOf(i)] <=>
                    /\ pageYOffset + 200 > Sections[i].top - 200
                    /\ pageYOffset + 200 <= Sections[i].top - 200 + Sections[i].height)

\* The offset at which pageYOffset + 200 meets the upper bound of the first
\* section and the lower bound of the second: the first link is active.
C3_Witness ==
    /\ layout = 1
    /\ scrollCount > 0
    /\ pageYOffset + 200 = Sections[1].top - 200 + Sections[1].height
    /\ pageYOffset + 200 = Sections[2].top - 200
    /\ activeLink[LinkOf(1)]
    /\ ~activeLink[LinkOf(2)]

\* C3, as stated: the link is active exactly when pageYOffset + 200 is in
\* [top-200, top-200+height).
C3_WindowClosedOpen ==
    scrollCount > 0 =>
        \A i \in 1..Len(Sections) :
            LastSelector(i) =>
                (activeLink[LinkOf(i)] <=>
                    /\ pageYOffset + 200 >= Sections[i].top - 200
                    /\ pageYOffset + 200 < Sections[i].top - 200 + Sections[i].height)

\* C6: once a filter button has been clicked, exactly one button carries
\* 'filter__btn--active': the one clicked last.
C6_SingleActiveButton ==
    lastFilter # 0 =>
        {b \in 1..Len(Buttons) : filterActive[b]} = {lastFilter}

\* The second button was clicked last and is the active one, the first
\* button, active in the markup, no longer is.
C6_Witness ==
    /\ lastFilter = 2
    /\ filterActive[2]
    /\ ~filterActive[1]

\* A deferred style reset has fired: a timer is gone and none was set.
CardTimerFired ==
    /\ cardTimers' # cardTimers
    /\ cardTimers' \subseteq cardTimers

\* C7: once a filter button has been clicked, a card is shown exactly when
\* the filter of the button clicked last is "all" or the card's category,
\* whatever timers are pending or have fired; and a deferred style reset
\* changes no card's 'hide' class.
C7_CardVisibility ==
    /\ [](lastFilter # 0 =>
            \A c \in Cards :
                ~cardHide[c] <=>
                    (Buttons[lastFilter] = "all"
                        \/ Buttons[lastFilter] = CardCategory[c]))
    /\ [][CardTimerFired => cardHide' = cardHide]_vars

\* Card 2 (app) was shown by an earlier click, whose timer has fired, and is
\* hidden by the last click (web), whose timers for the shown cards pend.
C7_Witness ==
    /\ lastFilter = 2
    /\ cardStyled[2]
    /\ cardHide[2]
    /\ ~cardHide[1]
    /\ \E t \in cardTimers : t.card = 1

\* C8: no handler raises an error, whichever element is missing.
C8_NoHandlerThrows == thrown = {}

\* C10: once a toggle, close or link click or an Escape keydown has been
\* handled, the menu carries 'show-menu' exactly when the last of them was
\* a toggle click; Escape on a closed menu and every other key leave the
\* menu as it is.
C10_MenuReflectsLastEvent ==
    /\ []( ("nav-menu" \in present /\ lastNavEvent # "none")
              => (showMenu <=> lastNavEvent = "toggle") )
    /\ [][ (\E key \in Keys, target \in 0..Len(Buttons) :
                /\ Keydown(key, target)
                /\ key # "Escape" \/ ~showMenu)
            => showMenu' = showMenu ]_vars

\* The menu was opened and Escape closed it.
C10_Witness ==
    /\ "nav-menu" \in present
    /\ lastNavEvent = "escape"
    /\ ~showMenu

\* The state InitLoaded starts the other specifications in is the one the
\* listeners leave, in a browser with IntersectionObserver and grid and
\* without the reduced-motion preference.
LoadedAsAssumed ==
    (loadStep = NumLoadHandlers /\ ioSupported /\ gridSupported
        /\ ~reducedMotion)
    => /\ animateOnScroll = FadeElements
       /\ animated = {}
       /\ fadeObserved = FadeElements
       /\ skillObserved = ("about__skills" \in present)
       /\ imgObserved = LazyImages
       /\ formListening = ("contact-form" \in present)
       /\ skipLink
       /\ ~transitionsOff
       /\ ~noGrid
       /\ thrown = {}

\* C9: without IntersectionObserver, once every DOMContentLoaded listener
\* has run every fade element carries 'animated', and the form listeners,
\* the skip link, the motion preference and the grid check are in effect.
C9_FallbackAnimatesAll ==
    (~ioSupported /\ loadStep = NumLoadHandlers)
    => /\ FadeElements \subseteq animated
       /\ formListening = ("contact-form" \in present)
       /\ skipLink
       /\ transitionsOff = reducedMotion
       /\ noGrid = ~gridSupported

\* Field f is required and its value is empty once trimmed, or it is an
\* email field whose value does not match the pattern.
Offending(f) ==
    /\ FieldRequired[f]
    /\ \/ \A i \in 1..Len(fieldValue[f]) : fieldValue[f][i] = " "
       \/ FieldType[f] = "email" /\ ~isValidEmail(fieldValue[f])

C5_ValidSubmit ==
    [][ "submit-button" \in present =>
        /\ (SubmitEvent /\ \A f \in Fields : ~Offending(f))
              => (submitDisabled' /\ submitLabel' = LoadingLabel)
        /\ submissions' # {} => submitDisabled'
        /\ FinishSubmit
              => /\ \E n \in notifications' \ notifications : n.type = "success"
                 /\ fieldValue' = DefaultValue
                 /\ ~submitDisabled'
                 /\ submitLabel' = OriginalLabel ]_vars

\* C5 for the submissions started while no other is awaiting its delay,
\* until a second one is started.
C5_SingleSubmission ==
    [][ ("submit-button" \in present /\ submitCount' <= 1) =>
        /\ (SubmitEvent /\ \A f \in Fields : ~Offending(f))
              => (submitDisabled' /\ submitLabel' = LoadingLabel)
        /\ submissions' # {} => submitDisabled'
        /\ FinishSubmit
              => /\ \E n \in notifications' \ notifications : n.type = "success"
                 /\ fieldValue' = DefaultValue
                 /\ ~submitDisabled'
                 /\ submitLabel' = OriginalLabel ]_vars

\* Image img is the target of an isIntersecting entry of the callback that
\* the step is.
ReportedIntersecting(img) ==
    \E entries \in Entries(LazyImages, MaxEntries) :
        /\ ImageIntersect(entries)
        /\ img \in DOMAIN entries
        /\ entries[img]

\* C11: the src of a lazy image is assigned only by a step in which
\* imageObserver reports the image as intersecting; an image keeps its
\* placeholder until then; once assigned, the src is the data-src, the
\* image is no longer observed, and the src was assigned exactly once.
C11_LazyImage ==
    /\ [][\A img \in LazyImages :
            (imgSrc'[img] # imgSrc[img] \/ srcAssigned'[img] # srcAssigned[img])
                => ReportedIntersecting(img)]_vars
    /\ [](\A img \in LazyImages :
            /\ srcAssigned[img] <= 1
            /\ srcAssigned[img] = 0 => imgSrc[img] = "placeholder"
            /\ srcAssigned[img] = 1 =>
                  (imgSrc[img] = "data-src" /\ img \notin imgObserved))

\* One image has been loaded and unobserved, the other still waits.
C11_Witness ==
    /\ imgSrc["img 1"] = "data-src"
    /\ srcAssigned["img 1"] = 1
    /\ "img 1" \notin imgObserved
    /\ imgSrc["img 2"] = "placeholder"
    /\ "img 2" \in imgObserved
    /\ skillReports # <<>>

\* Element el is the target of an isIntersecting entry of the callback that
\* the step is.
FadeReportedIntersecting(el) ==
    \E entries \in Entries(ReportedFade, MaxEntries) :
        /\ FadeIntersect(entries)
        /\ el \in DOMAIN entries
        /\ entries[el]

\* C12: an element gets 'animated' only in a step in which fadeObserver
\* reports it as intersecting, and no step takes 'animated' from an
\* element: not a report of an exit, a scroll event, a filter click or a
\* timer.
C12_AnimatedOneShot ==
    [][/\ animated \subseteq animated'
       /\ \A el \in animated' \ animated : FadeReportedIntersecting(el)]_vars

\* The second card was animated and is hidden by the 'web' filter, whose
\* timers have fired, after a scroll event.
C12_Witness ==
    /\ CardElement[2] \in animated
    /\ "section__header" \notin animated
    /\ lastFilter = 2
    /\ cardHide[2]
    /\ cardTimers = {}
    /\ scrollCount = 1
    /\ execLog # <<>>

\* The scroll events so far are one burst, each less than the wait after
\* the one before, and the burst is over.
OneBurstSettled ==
    /\ Len(callTimes) >= 2
    /\ \A i \in 1..(Len(callTimes) - 1) :
            callTimes[i + 1] - callTimes[i] < DebounceWait
    /\ now > callTimes[Len(callTimes)] + DebounceWait

\* C13: after a burst of two or more scroll events, each less than 16 ms
\* after the one before, handleHeaderScroll and highlightActiveNavLink have
\* each run exactly once.
C13_DebouncedOnly ==
    OneBurstSettled => (headerRuns = 1 /\ highlightRuns = 1)

\* C14: once every submission that was started has finished, the submit
\* control is enabled and shows the label it had before the first one.
C14_ControlRestored ==
    (submitCount >= 1 /\ submissions = {})
        => (~submitDisabled /\ submitLabel = OriginalLabel)

\* The calls of the wrapper that were followed by a quiet period of the
\* length of the wait.
QuietPeriods ==
    {j \in 1..Len(callTimes) :
        (IF j < Len(callTimes) THEN callTimes[j + 1] ELSE now) - callTimes[j]
            >= DebounceWait}

\* C15: the wrapper has at most one pending timer, the one its closure
\* variable names, and func has run at most once for every quiet period.
C15_OnePending ==
    /\ Cardinality(debTimers) <= 1
    /\ \A t \in debTimers : t.id = timeout
    /\ Len(execLog) <= Cardinality(QuietPeriods)

\* A call was cancelled by the next one, whose timer has fired, and the
\* timer of a third call is pending.
C15_Witness ==
    /\ Len(callTimes) = 3
    /\ callTimes[2] - callTimes[1] < DebounceWait
    /\ Len(execLog) = 1
    /\ execLog[1].args = 2
    /\ Cardinality(debTimers) = 1

\* The time of the first classList.add('animate') on the skill.
FirstAnimate(skill) ==
    LET ks == {k \in 1..Len(animateLog) : animateLog[k].skill = skill}
    IN  animateLog[CHOOSE k \in ks : \A j \in ks : k <= j].time

\* C16: a skill gets 'animate' 200 * index ms after the container's first
\* intersection, hence in index order; every add is 200 * index ms after
\* some intersection; no step takes 'animate' from a skill; and once the
\* container has intersected, early enough for the clock to reach the last
\* timer, every skill gets 'animate'.
C16_StaggeredReveal ==
    /\ [](/\ \A index \in skillAnimate :
                FirstAnimate(index) = skillReports[1] + SkillStagger * index
          /\ \A index \in skillAnimate : \A j \in Skills :
                j < index => (j \in skillAnimate
                                /\ FirstAnimate(j) < FirstAnimate(index))
          /\ \A k \in 1..Len(animateLog) :
                \E r \in 1..Len(skillReports) :
                    animateLog[k].time =
                        skillReports[r] + SkillStagger * animateLog[k].skill)
    /\ [][skillAnimate \subseteq skillAnimate']_vars
    /\ (/\ skillReports # <<>>
        /\ skillReports[1] + SkillStagger * 2 <= SkillHorizon)
            ~> (skillAnimate = Skills)

\* The container intersected a second time while timers of the first were
\* pending; every skill has 'animate' and a timer of the second is pending.
C16_Witness ==
    /\ Len(skillReports) = 2
    /\ skillReports[2] < skillReports[1] + SkillStagger * 2
    /\ skillAnimate = Skills
    /\ skillTimers # {}
    /\ Len(animateLog) > Cardinality(Skills)

\* The sections' extents [top, top + height) are pairwise disjoint.
DisjointSections ==
    \A i, j \in 1..Len(Sections) :
        i < j => \/ Sections[i].top + Sections[i].height <= Sections[j].top
                 \/ Sections[j].top + Sections[j].height <= Sections[i].top

\* Every section has a link, which no other section selects.
OwnLinks ==
    \A i \in 1..Len(Sections) :
        /\ LinkOf(i) # 0
        /\ \A j \in 1..Len(Sections) : j # i => LinkOf(j) # LinkOf(i)

\* C17: with disjoint sections, each with its own link, at most one link
\* carries 'active-link' after highlightActiveNavLink ran.
C17_AtMostOneActive ==
    (scrollCount > 0 /\ DisjointSections /\ OwnLinks)
        => Cardinality({l \in 1..Len(NavLinks) : activeLink[l]}) <= 1

\* The offset at which pageYOffset + 200 is the end of the first section's
\* window and the start of the second's: the first link alone is active.
C17_Witness ==
    /\ DisjointSections
    /\ OwnLinks
    /\ scrollCount > 0
    /\ pageYOffset + LookAhead = Sections[2].top - SectionLead
    /\ {l \in 1..Len(NavLinks) : activeLink[l]} = {LinkOf(1)}

\* The notification is in the document, and the clock reaches its removal.
WillExpire(id) ==
    /\ \E n \in notifications : n.id = id
    /\ \E t \in notifTimers :
        /\ t.id = id
        /\ \/ t.kind = "out" /\ t.due + NotifyRemoveDelay <= FormHorizon
           \/ t.kind = "remove" /\ t.due <= FormHorizon

\* C18: every notification in the document has its slide-out or its
\* removal pending, so that none remains once all timers have fired; and a
\* notification whose removal the clock reaches is removed.
C18_NotificationsTransient ==
    /\ [](\A n \in notifications :
            \E t \in notifTimers : t.id = n.id /\ t.kind \in {"out", "remove"})
    /\ [](notifTimers = {} => notifications = {})
    /\ \A id \in 1..MaxSubmits :
            WillExpire(id) ~> (\A n \in notifications : n.id # id)

\* A submission has finished, its notification was shown and removed, and
\* no timer is left.
C18_Witness ==
    /\ submitCount >= 1
    /\ submissions = {}
    /\ notifications = {}
    /\ notifTimers = {}
    /\ now >= SubmitDelay + NotifyOutDelay + NotifyRemoveDelay

====
